---- MODULE Spec2Model ----
(***************************************************************************)
(* Model of src/pages/index.tsx: the Gallery page and its Uploader dialog. *)
(*                                                                         *)
(* Gallery holds the session list (localImages, seeded from the images     *)
(* prop) and passes its length (amount) and its setter to Uploader.        *)
(* Uploader holds the isOpen flag and the form.  handleSubmit validates    *)
(* the registered fields and, when they are valid, calls onSubmit, which   *)
(* runs up to `await insert(item)` in one event-loop turn and resumes      *)
(* (append, closeModal) when the insert call returns.                      *)
(*                                                                         *)
(* Text fields name, username and key are strings; imageSrc, which the     *)
(* pattern inspects character by character, is a sequence of one-character *)
(* strings.                                                                *)
(***************************************************************************)
EXTENDS Integers, Sequences, FiniteSets, TLC

VARIABLES
    images,       \* the images prop of Gallery (<<>> when isNull)
    isNull,       \* TRUE iff the images prop is null (getStaticProps: data = null)
    localImages,  \* Gallery's state, useState(images)
    isOpen,       \* Uploader's state, useState(false)
    inserts,      \* the onSubmit invocations that reached the insert call, in
                  \* the order they were made: the closure (data, amount, item),
                  \* the call's status, and two history fields: seen, the
                  \* length of localImages when the invocation started, and
                  \* inflight, the invocations then awaiting their insert
    store,        \* rows of the external 'images' table
    last          \* history: the handler that ran last

vars == <<images, isNull, localImages, isOpen, inserts, store, last>>

\* Most insert calls issued in one session.
MaxSubmits == 2

-----------------------------------------------------------------------------
\* Characters and the imageSrc pattern

Lower == {"a", "b", "c", "d", "e", "f", "g", "h", "i", "j", "k", "l", "m",
          "n", "o", "p", "q", "r", "s", "t", "u", "v", "w", "x", "y", "z"}
Upper == {"A", "B", "C", "D", "E", "F", "G", "H", "I", "J", "K", "L", "M",
          "N", "O", "P", "Q", "R", "S", "T", "U", "V", "W", "X", "Y", "Z"}
Digit == {"0", "1", "2", "3", "4", "5", "6", "7", "8", "9"}

\* [-a-zA-Z0-9@:%._\+~#=]
HostChar == Lower \cup Upper \cup Digit \cup
            {"-", "@", ":", "%", ".", "_", "+", "~", "#", "="}

\* \w
WordChar == Lower \cup Upper \cup Digit \cup {"_"}

MinHost == 2
MinTld == 2
MaxTld == 6

\* The pattern of register('imageSrc'), unanchored: somewhere in s there are
\* at least two HostChars, a dot, two to six lower-case letters and then a
\* word boundary.  The optional groups before and after match the empty
\* string, so they do not change whether s matches.
PatternMatches(s) ==
    \E i \in 1..Len(s), n \in MinHost..Len(s), k \in MinTld..MaxTld :
        /\ i + n + k <= Len(s)
        /\ \A p \in i..(i + n - 1) : s[p] \in HostChar
        /\ s[i + n] = "."
        /\ \A p \in (i + n + 1)..(i + n + k) : s[p] \in Lower
        /\ IF i + n + k = Len(s) THEN TRUE
                                  ELSE s[i + n + k + 1] \notin WordChar

\* register options: imageSrc {pattern, required}, key {required}; name and
\* username carry no rule.  handleSubmit calls onSubmit only when this holds.
ValidateMissingKey(data) ==
    /\ data.imageSrc # <<>>
    /\ PatternMatches(data.imageSrc)

Validate(data) ==
    /\ data.imageSrc # <<>>
    /\ PatternMatches(data.imageSrc)
    /\ data.key # ""

-----------------------------------------------------------------------------
\* Inputs

SrcPlant == <<"a", "b", ".", "i", "o">>
SrcText == <<"n", "o", "t", " ", "a", " ", "u", "r", "l">>

SrcInputs == {<<>>, SrcText, SrcPlant}
NameInputs == {"", "fern"}
UsernameInputs == {"", "bob"}
KeyInputs == {"", "on", "off"}

Inputs == [imageSrc : SrcInputs, name : NameInputs,
           username : UsernameInputs, key : KeyInputs]

\* What handleSubmit lets through to onSubmit, and what it blocks (each set
\* enumerated once).
ValidInputs == {d : d \in {data \in Inputs : Validate(data)}}
InvalidInputs == {d : d \in {data \in Inputs : ~Validate(data)}}

Row(i, n, u) == [id |-> i, imageSrc |-> SrcPlant, name |-> n, username |-> u]

\* Results of select('*').order('id'): ascending ids, with and without a gap.
InitialImages ==
    { <<>>,
      <<Row(1, "oak", "ann")>>,
      <<Row(1, "oak", "ann"), Row(2, "ivy", "anonymous")>>,
      <<Row(1, "oak", "ann"), Row(3, "ivy", "anonymous")>> }

-----------------------------------------------------------------------------
\* Gallery

amountStale == Len(images)

\* amount={localImages.length}
amount == Len(localImages)

\* One render of Gallery.  The props of Uploader are evaluated before the
\* grid, and reading .length of null throws.
Gallery ==
    IF isNull
    THEN [status |-> "TypeError", tiles |-> <<>>, fallback |-> FALSE]
    ELSE IF ~isNull
         THEN [status |-> "rendered", tiles |-> localImages, fallback |-> FALSE]
         ELSE [status |-> "rendered", tiles |-> <<>>, fallback |-> TRUE]

Mounted == Gallery.status = "rendered"

-----------------------------------------------------------------------------
\* Uploader

Pending == {i \in 1..Len(inserts) : inserts[i].status = "pending"}
Returned == {i \in 1..Len(inserts) : inserts[i].status # "pending"}

\* x || dflt for strings
OrElse(x, dflt) == IF x = "" THEN dflt ELSE x

itemCountsPending(data, amt) ==
    [id |-> amt + 1 + Cardinality(Pending),
     imageSrc |-> data.imageSrc,
     name |-> OrElse(data.name, "plant from anonymous"),
     username |-> OrElse(data.username, "anonymous")]

itemNoDefaults(data, amt) ==
    [id |-> amt + 1,
     imageSrc |-> data.imageSrc,
     name |-> data.name,
     username |-> data.username]

itemIdIsAmount(data, amt) ==
    [id |-> amt,
     imageSrc |-> data.imageSrc,
     name |-> OrElse(data.name, "plant from anonymous"),
     username |-> OrElse(data.username, "anonymous")]

\* const item = {...}
item(data, amt) ==
    [id |-> amt + 1,
     imageSrc |-> data.imageSrc,
     name |-> OrElse(data.name, "plant from anonymous"),
     username |-> OrElse(data.username, "anonymous")]

\* onClick={openModal}; the button is covered while the dialog is open
openModal ==
    /\ Mounted
    /\ ~isOpen
    /\ isOpen' = TRUE
    /\ last' = "openModal"
    /\ UNCHANGED <<images, isNull, localImages, inserts, store>>

\* Dialog onClose={closeModal}
closeModal ==
    /\ Mounted
    /\ isOpen
    /\ isOpen' = FALSE
    /\ last' = "closeModal"
    /\ UNCHANGED <<images, isNull, localImages, inserts, store>>

\* handleSubmit(onSubmit) with a field in error: onSubmit is not called.
handleSubmitInvalid(data) ==
    /\ Mounted
    /\ isOpen
    /\ data \in InvalidInputs
    /\ last' = "invalid"
    /\ UNCHANGED <<images, isNull, localImages, isOpen, inserts, store>>

onSubmitGateKeepsOpen(data) ==
    /\ Mounted
    /\ isOpen
    /\ data \in ValidInputs
    /\ data.key # "on"
    /\ last' = "gate"
    /\ UNCHANGED <<images, isNull, localImages, isOpen, inserts, store>>

\* onSubmit, key !== 'on'
onSubmitGate(data) ==
    /\ Mounted
    /\ isOpen
    /\ data \in ValidInputs
    /\ data.key # "on"
    /\ isOpen' = FALSE
    /\ last' = "gate"
    /\ UNCHANGED <<images, isNull, localImages, inserts, store>>

\* onSubmit, key === 'on', up to the await: the item is built from the amount
\* of the current render and the insert call is issued.
onSubmitInsert(data) ==
    /\ Mounted
    /\ isOpen
    /\ data \in ValidInputs
    /\ data.key = "on"
    /\ Len(inserts) < MaxSubmits
    /\ inserts' = Append(inserts,
                         [data |-> data, amount |-> amount,
                          item |-> item(data, amount), status |-> "pending",
                          seen |-> Len(localImages), inflight |-> Pending])
    /\ last' = "insert"
    /\ UNCHANGED <<images, isNull, localImages, isOpen, store>>

onSubmitResumeOnlyOk(i, ok) ==
    /\ Mounted
    /\ i \in Pending
    /\ inserts' = [inserts EXCEPT ![i].status = IF ok THEN "ok" ELSE "error"]
    /\ store' = IF ok THEN Append(store, inserts[i].item) ELSE store
    /\ localImages' = IF ok THEN Append(localImages, inserts[i].item)
                      ELSE localImages
    /\ isOpen' = FALSE
    /\ last' = "resume"
    /\ UNCHANGED <<images, isNull>>

onSubmitResumePrepend(i, ok) ==
    /\ Mounted
    /\ i \in Pending
    /\ inserts' = [inserts EXCEPT ![i].status = IF ok THEN "ok" ELSE "error"]
    /\ store' = IF ok THEN Append(store, inserts[i].item) ELSE store
    /\ localImages' = <<inserts[i].item>> \o localImages
    /\ isOpen' = FALSE
    /\ last' = "resume"
    /\ UNCHANGED <<images, isNull>>

onSubmitResumeKeepsOpen(i, ok) ==
    /\ Mounted
    /\ i \in Pending
    /\ inserts' = [inserts EXCEPT ![i].status = IF ok THEN "ok" ELSE "error"]
    /\ store' = IF ok THEN Append(store, inserts[i].item) ELSE store
    /\ localImages' = Append(localImages, inserts[i].item)
    /\ isOpen' = isOpen
    /\ last' = "resume"
    /\ UNCHANGED <<images, isNull>>

\* onSubmit after the await: insert call i returned, with or without an
\* error; the result is not looked at.
onSubmitResume(i, ok) ==
    /\ Mounted
    /\ i \in Pending
    /\ inserts' = [inserts EXCEPT ![i].status = IF ok THEN "ok" ELSE "error"]
    /\ store' = IF ok THEN Append(store, inserts[i].item) ELSE store
    /\ localImages' = Append(localImages, inserts[i].item)
    /\ isOpen' = FALSE
    /\ last' = "resume"
    /\ UNCHANGED <<images, isNull>>

\* const onSubmit: SubmitHandler<Inputs>
onSubmit(data) ==
    \/ onSubmitGate(data)
    \/ onSubmitInsert(data)

\* onSubmit={handleSubmit(onSubmit)}
handleSubmit(data) ==
    \/ handleSubmitInvalid(data)
    \/ onSubmit(data)

-----------------------------------------------------------------------------

Init ==
    /\ \/ /\ isNull = TRUE
          /\ images = <<>>
       \/ /\ isNull = FALSE
          /\ images \in InitialImages
    /\ localImages = images
    /\ isOpen = FALSE
    /\ inserts = <<>>
    /\ store = images
    /\ last = "mount"

Next ==
    \/ openModal
    \/ closeModal
    \/ \E data \in Inputs : handleSubmit(data)
    \/ \E i \in 1..MaxSubmits, ok \in BOOLEAN : onSubmitResume(i, ok)

Spec == Init /\ [][Next]_vars

-----------------------------------------------------------------------------
\* CLAIMS

\* An invocation that was alone in flight from its start to its return: none
\* was awaiting when it started, and none started while it was awaiting.
Alone(i) ==
    /\ inserts[i].inflight = {}
    /\ \A j \in 1..Len(inserts) : i \notin inserts[j].inflight

\* The record a submission of data is to add to a list of n records.
Expected(data, n) ==
    [id |-> n + 1,
     imageSrc |-> data.imageSrc,
     name |-> IF data.name = "" THEN "plant from anonymous" ELSE data.name,
     username |-> IF data.username = "" THEN "anonymous" ELSE data.username]

\* The items of the invocations 1..n that have returned, in the order the
\* invocations were made.
RECURSIVE ReturnedItems(_)
ReturnedItems(n) ==
    IF n = 0 THEN <<>>
    ELSE IF inserts[n].status = "pending" THEN ReturnedItems(n - 1)
         ELSE Append(ReturnedItems(n - 1), inserts[n].item)

\* C1: mounted with a null images prop, Gallery renders the 'Images not
\* found' fallback and no tile.
C1_NullRendersFallback ==
    isNull => /\ Gallery.status = "rendered"
              /\ Gallery.fallback
              /\ Gallery.tiles = <<>>

\* C2: a submission that passes the gate and is alone in flight, started on
\* a list of N records, leaves the record {N+1, imageSrc as entered, name and
\* username as entered or the placeholders when empty} at position N+1, and
\* until the next submission returns that is the last of N+1 records.
C2_SingleSubmitAppends ==
    \A i \in Returned :
        Alone(i) =>
            LET N == inserts[i].seen IN
            /\ inserts[i].data.key = "on"
            /\ Len(localImages) >= N + 1
            /\ localImages[N + 1] = Expected(inserts[i].data, N)
            /\ (\A j \in (i + 1)..Len(inserts) : j \in Pending)
                   => Len(localImages) = N + 1

C2_Witness ==
    \E i \in Returned :
        /\ Alone(i)
        /\ inserts[i].data.name = ""
        /\ inserts[i].data.username = ""
        /\ localImages[inserts[i].seen + 1].id = inserts[i].seen + 1
        /\ localImages[inserts[i].seen + 1].name = "plant from anonymous"
        /\ localImages[inserts[i].seen + 1].username = "anonymous"

\* The inputs C3 is about: every field passes its rule and key is not "on".
GateFailInputs ==
    {d : d \in {data \in Inputs : /\ data.imageSrc # <<>>
                                  /\ PatternMatches(data.imageSrc)
                                  /\ data.key \notin {"", "on"}}}

\* C3: submitting fields that pass validation with a key other than "on"
\* closes the modal, issues no insert and leaves the session list unchanged:
\* a step either has that effect or is no such submission.
C3_GateFailureCloses ==
    [][\/ /\ ~isOpen'
             /\ inserts' = inserts
             /\ store' = store
             /\ localImages' = localImages
          \/ \A data \in GateFailInputs : ~handleSubmit(data)]_vars

C3_Witness ==
    /\ last = "gate"
    /\ ~isOpen

\* The inputs C4 is about: imageSrc missing or not matching, or key missing.
BlockedInputs ==
    {d : d \in {data \in Inputs : \/ data.imageSrc = <<>>
                                  \/ ~PatternMatches(data.imageSrc)
                                  \/ data.key = ""}}

\* C4: a submit attempt that fails validation leaves the modal open, issues
\* no insert and leaves the session list unchanged, whatever the key is: a
\* step either has that effect or is no such attempt.
C4_ValidationBlocks ==
    [][\/ /\ isOpen /\ isOpen'
             /\ inserts' = inserts
             /\ store' = store
             /\ localImages' = localImages
          \/ \A data \in BlockedInputs : ~handleSubmit(data)]_vars

C4_Witness ==
    /\ last = "invalid"
    /\ isOpen
    /\ \E data \in BlockedInputs : data.key = "on"

\* C5: two submissions that pass the gate, the second started after the
\* first returned, starting from N records, leave records with ids N+1 and
\* N+2 at positions N+1 and N+2.
C5_SequentialIds ==
    \A i \in Returned :
        (i + 1 \in Returned /\ Alone(i) /\ Alone(i + 1)) =>
            LET N == inserts[i].seen IN
            /\ Len(localImages) >= N + 2
            /\ localImages[N + 1] = Expected(inserts[i].data, N)
            /\ localImages[N + 2] = Expected(inserts[i + 1].data, N + 1)

C5_Witness ==
    /\ {1, 2} \subseteq Returned
    /\ Alone(1)
    /\ Alone(2)
    /\ localImages[Len(localImages)].id = Len(images) + 2

\* C6 as stated: the session list is the initial sequence followed by the
\* appended records in the order their submissions were made.
C6_SubmissionOrder ==
    localImages = images \o ReturnedItems(Len(inserts))

\* C6 amended: the session list starts as the initial sequence and changes
\* only by one record added at its end, the record of a submission whose
\* insert has just returned; so it is the initial sequence followed by the
\* appended records in the order their inserts returned, which is the order
\* of submission when no two submissions were in flight together.
C6_AppendInReturnOrder ==
    /\ localImages = images
    /\ [][/\ images' = images
          /\ \/ localImages' = localImages
             \/ \E i \in Pending :
                    /\ inserts'[i].status # "pending"
                    /\ localImages' = Append(localImages,
                                             Expected(inserts[i].data, inserts[i].seen))
          /\ (\A i \in 1..Len(inserts') : inserts'[i].inflight = {})
                 => localImages' = images' \o ReturnedItems(Len(inserts))']_vars

C6_Witness ==
    /\ Returned = {1, 2}
    /\ localImages # images \o ReturnedItems(Len(inserts))
    /\ Len(localImages) = Len(images) + 2

\* C7: a record is in the session list exactly when its insert call has
\* returned, with or without an error; the store holds only the records
\* whose insert succeeded; and the return closes the modal.
C7_AppendedWhateverTheInsertReports ==
    /\ Len(localImages) = Len(images) + Cardinality(Returned)
    /\ \A i \in Returned :
           \E p \in (Len(images) + 1)..Len(localImages) :
               localImages[p] = Expected(inserts[i].data, inserts[i].seen)
    /\ Len(store) = Len(images)
                    + Cardinality({i \in Returned : inserts[i].status = "ok"})
    /\ last = "resume" => ~isOpen

C7_Witness ==
    /\ last = "resume"
    /\ \E i \in Returned : inserts[i].status = "error"
    /\ Len(localImages) > Len(store)

\* C8: the dialog is Closed at first; it opens only by the trigger; it closes
\* only by an explicit close, a gate failure or the return of an insert; and
\* the return of an insert closes it in whatever state it finds it.
C8_DialogStates ==
    /\ isOpen = FALSE
    /\ [][/\ isOpen' \in BOOLEAN
          /\ (~isOpen /\ isOpen') => last' = "openModal"
          /\ (isOpen /\ ~isOpen') => last' \in {"closeModal", "gate", "resume"}
          /\ (\E i \in Pending : inserts'[i].status # "pending") => ~isOpen']_vars

\* The dialog was closed and reopened while an insert is awaited.
C8_Witness ==
    /\ isOpen
    /\ last = "openModal"
    /\ Pending # {}

\* C9: a submission started with none in flight and the next submission,
\* started while the first is the only one awaiting its insert: both closures
\* hold the same amount N, both items have id N+1, and once both inserts
\* have returned, whatever they reported, both records are in the session
\* list.
C9_DoubleSubmitSameId ==
    \A i \in 1..(Len(inserts) - 1) :
        (inserts[i].inflight = {} /\ inserts[i + 1].inflight = {i}) =>
            LET N == inserts[i].seen IN
            /\ inserts[i + 1].seen = N
            /\ inserts[i].item.id = N + 1
            /\ inserts[i + 1].item.id = N + 1
            /\ {i, i + 1} \subseteq Returned =>
                   \E p, q \in (Len(images) + 1)..Len(localImages) :
                       /\ p # q
                       /\ localImages[p] = Expected(inserts[i].data, N)
                       /\ localImages[q] = Expected(inserts[i + 1].data, N)

C9_Witness ==
    /\ Len(inserts) = 2
    /\ inserts[2].inflight = {1}
    /\ inserts[1].status = "error"
    /\ inserts[2].status = "ok"
    /\ localImages[Len(localImages)].id = localImages[Len(localImages) - 1].id

\* The initial sequence has ids 1..N in order.
DenseIds == \A k \in 1..Len(images) : images[k].id = k

\* C10: when the initial ids are 1..N in order and no submission started
\* while another awaited its insert, the record at position k has id k, so
\* the ids are pairwise distinct.
C10_IdsArePositions ==
    (DenseIds /\ \A i \in 1..Len(inserts) : inserts[i].inflight = {}) =>
        /\ \A k \in 1..Len(localImages) : localImages[k].id = k
        /\ \A k, m \in 1..Len(localImages) :
               k # m => localImages[k].id # localImages[m].id

C10_Witness ==
    /\ DenseIds
    /\ images # <<>>
    /\ \A i \in 1..Len(inserts) : inserts[i].inflight = {}
    /\ Returned = {1, 2}

\* C10, second half, negated: with a gap in the initial ids and no two
\* submissions in flight together, the ids stay pairwise distinct.  TLC
\* finds this violated.
C10_GapKeepsIdsDistinct ==
    (~DenseIds /\ \A i \in 1..Len(inserts) : inserts[i].inflight = {}) =>
        \A k, m \in 1..Len(localImages) :
            k # m => localImages[k].id # localImages[m].id

====
